---- MODULE Spec2Model ----
(***************************************************************************)
(* n-body-viewer: main.rs as a state machine.                              *)
(*                                                                         *)
(* The main thread resolves its configuration, creates a thread pool of    *)
(* worker_num threads, submits one rendering job per sample index          *)
(* 0..=sample_number, folds job_number results out of the channel and      *)
(* then runs ffmpeg.  Each job spawns gnuplot, writes its script, waits    *)
(* for the child and sends its Result on the channel.                      *)
(***************************************************************************)
EXTENDS Integers, Sequences, FiniteSets, TLC

\* ---------------------------------------------------------------- bounds
\* largest sample number read from _sample.txt
MaxS == 2
\* largest worker number (--worker / num_cpus)
MaxW == 2
\* longest _bounds.dat, in lines
MaxLines == 3

\* ------------------------------------------------------ program constants
EXIT_SUCCESS == 0
EXIT_FAILURE == 1
\* exit status of a Rust process whose main thread panicked
EXIT_PANIC == 101

\* ------------------------------------------------------------- strings
\* A string is a sequence of one-character strings.
Digits == {"0", "1"}

IsWhitespace(c) == c \in {" ", "\t"}

RECURSIVE TrimStart(_)
TrimStart(s) ==
    IF s = <<>> THEN <<>>
    ELSE IF IsWhitespace(Head(s)) THEN TrimStart(Tail(s)) ELSE s

RECURSIVE TrimEnd(_)
TrimEnd(s) ==
    IF s = <<>> THEN <<>>
    ELSE IF IsWhitespace(s[Len(s)]) THEN TrimEnd(SubSeq(s, 1, Len(s) - 1)) ELSE s

\* str::trim
Trim(s) == TrimEnd(TrimStart(s))

\* str::split(' '): the pieces between the separators, empty pieces included
RECURSIVE SplitFrom(_, _, _)
SplitFrom(s, sep, cur) ==
    IF s = <<>> THEN <<cur>>
    ELSE IF Head(s) = sep THEN <<cur>> \o SplitFrom(Tail(s), sep, <<>>)
    ELSE SplitFrom(Tail(s), sep, Append(cur, Head(s)))

Split(s, sep) == SplitFrom(s, sep, <<>>)

DigitVal(c) == IF c = "1" THEN 1 ELSE 0

RECURSIVE DecimalVal(_)
DecimalVal(s) ==
    IF s = <<>> THEN 0
    ELSE 10 * DecimalVal(SubSeq(s, 1, Len(s) - 1)) + DigitVal(s[Len(s)])

AllDigits(s) == s # <<>> /\ \A k \in 1..Len(s) : s[k] \in Digits

\* str::parse::<f64> on the literals of the model's alphabet: an optional sign
\* and one or more digits.  Everything else is a ParseFloatError.
ParsesAsFloat(s) ==
    \/ AllDigits(s)
    \/ s # <<>> /\ Head(s) \in {"-", "+"} /\ AllDigits(Tail(s))

FloatVal(s) ==
    IF Head(s) = "-" THEN 0 - DecimalVal(Tail(s))
    ELSE IF Head(s) = "+" THEN DecimalVal(Tail(s))
    ELSE DecimalVal(s)

RECURSIVE NonEmptyTrimmed(_)
NonEmptyTrimmed(pieces) ==
    IF pieces = <<>> THEN <<>>
    ELSE LET t == Trim(Head(pieces))
         IN  IF t = <<>> THEN NonEmptyTrimmed(Tail(pieces))
             ELSE <<t>> \o NonEmptyTrimmed(Tail(pieces))

\* fn read_bounds(s: &str) -> Result<Vec<f64>, ParseFloatError>
read_bounds(s) ==
    LET toks == NonEmptyTrimmed(Split(s, " "))
    IN  IF \A k \in 1..Len(toks) : ParsesAsFloat(toks[k])
        THEN [ok |-> TRUE, val |-> [k \in 1..Len(toks) |-> FloatVal(toks[k])]]
        ELSE [ok |-> FALSE, val |-> <<>>]

\* a faulty variant: the line is not trimmed before it is tested
IsUsableLine_NoTrim(line) == line # <<>> /\ Head(line) # "#"

\* the filter over the lines of _bounds.dat
IsUsableLine(line) ==
    LET t == Trim(line) IN t # <<>> /\ Head(t) # "#"

RECURSIVE UsableLines(_)
UsableLines(lines) ==
    IF lines = <<>> THEN <<>>
    ELSE IF IsUsableLine(Head(lines)) THEN <<Head(lines)>> \o UsableLines(Tail(lines))
    ELSE UsableLines(Tail(lines))

\* ------------------------------------------------------------- values
\* Option<T>: None is the empty sequence, Some(x) the one-element sequence.
None == <<>>
Some(x) == <<x>>

\* exit statuses a gnuplot child can report (Option<i32>, None: killed by a signal)
ChildStatuses == {Some(0), Some(1), None}

\* ViewerError.  `job` tells the error values of different jobs apart
\* (NoJob for an error raised by the main thread), `at` is the `?` that raised it.
NoJob == 0 - 1
Error(kind, j, at) == [kind |-> kind, job |-> j, at |-> at]
NoError == Error("none", NoJob, "-")

\* Result<(usize, Option<i32>), ViewerError>, the item type of the channel
OkItem(i, status) == [tag |-> "Ok", i |-> i, status |-> status, err |-> NoError]
ErrItem(e) == [tag |-> "Err", i |-> NoJob, status |-> None, err |-> e]
SenderOf(m) == IF m.tag = "Ok" THEN m.i ELSE m.err.job

\* Result<usize, ViewerError>, the accumulator of the fold
OkNum(n) == [tag |-> "Ok", num |-> n, err |-> NoError]
ErrNum(e) == [tag |-> "Err", num |-> 0, err |-> e]

\* how main ended
Running == [how |-> "running", err |-> NoError]
Returned(e) == [how |-> IF e = NoError THEN "Ok" ELSE "Err", err |-> e]
Panicked(at) == [how |-> "panic", err |-> Error("panic", NoJob, at)]
Exited == [how |-> "exit", err |-> NoError]

Jobs == 0..MaxS

\* -------------------------------------------------------------- inputs
\* command-line values for --initial-rotation, --rotation-speed and the
\* content of _time.txt
FloatArgs == { <<"1", "0">>, <<"-", "1">>, <<"x">> }

\* values of --min-bounds / --max-bounds
MinArgs == { <<"0", " ", " ", "0", " ", "-", "1">>, <<"0">>, <<"0", " ", "x">> }
MaxArgs == { <<" ", "1", " ", "1", " ", "1">>, <<"1">>, <<"1", "\t", "1">> }

\* lines of _bounds.dat
FileLines ==
    { <<"0", " ", "1">>, <<"x">>, <<>>, <<" ", "#", "1">> }

RECURSIVE SeqsUpTo(_, _)
SeqsUpTo(S, n) ==
    IF n = 0 THEN { <<>> }
    ELSE LET shorter == SeqsUpTo(S, n - 1)
         IN  shorter \cup { Append(q, x) : q \in { r \in shorter : Len(r) = n - 1 }, x \in S }

BoundsFiles == SeqsUpTo(FileLines, MaxLines)

\* --------------------------------------------------------------- state
VARIABLES
    fixed_args,     \* --min-bounds/--max-bounds when the initial state fixes them, or None
    fixed_file,     \* the lines of _bounds.dat when the initial state fixes them, or None
    pc,             \* the statement of main that runs next
    main_result,    \* how main ended
    exit_status,    \* the exit status of the process, None while it runs
    worker_num,     \* let worker_num
    sample_number,  \* let sample_number
    min_bounds,     \* let min_bounds
    max_bounds,     \* let max_bounds
    file_opened,    \* whether _bounds.dat was opened
    pool,           \* whether the ThreadPool exists
    next_i,         \* the loop variable of the dispatch loop
    submits,        \* history: for each job index, the number of pool.execute calls
    queue,          \* the jobs waiting in the pool's queue, in submission order
    job,            \* for each job index, where its closure stands
    children,       \* the jobs whose gnuplot child was spawned and not waited for
    chan,           \* the items in the channel, oldest first
    taken,          \* the number of items rx.iter().take(job_number) has yielded
    finished,       \* the accumulator of the fold
    stdout,         \* the "child i finished" lines printed, as (i, status) pairs
    first_err,      \* history: the first error the fold received
    recv,           \* history: for each job, how many of its items the fold received
    ffmpeg,         \* the number of times ffmpeg was spawned
    ffmpeg_status   \* the exit status printed for ffmpeg, None before

vars == << fixed_args, fixed_file, pc, main_result, exit_status, worker_num, sample_number, min_bounds,
           max_bounds, file_opened, pool, next_i, submits, queue, job, children, chan,
           taken, finished, stdout, first_err, recv, ffmpeg, ffmpeg_status >>

inputs == << fixed_args, fixed_file >>
config == << inputs, worker_num, sample_number, min_bounds, max_bounds, file_opened >>
encoder == << ffmpeg, ffmpeg_status >>
batch == << pool, next_i, submits, queue, job, children, chan, taken, finished, stdout,
           first_err, recv >>

\* a faulty variant: let job_number = sample_number
job_number_NoPlusOne == sample_number

\* let job_number = sample_number + 1
job_number == sample_number + 1

Init ==
    /\ fixed_args = None
    /\ fixed_file = None
    /\ pc = "initial_rotation"
    /\ main_result = Running
    /\ exit_status = None
    /\ worker_num = 0
    /\ sample_number = 0
    /\ min_bounds = <<>>
    /\ max_bounds = <<>>
    /\ file_opened = FALSE
    /\ pool = FALSE
    /\ next_i = 0
    /\ submits = [i \in Jobs |-> 0]
    /\ queue = <<>>
    /\ job = [i \in Jobs |-> "unsubmitted"]
    /\ children = {}
    /\ chan = <<>>
    /\ taken = 0
    /\ finished = OkNum(0)
    /\ stdout = {}
    /\ first_err = NoError
    /\ recv = [i \in Jobs |-> 0]
    /\ ffmpeg = 0
    /\ ffmpeg_status = <<>>

\* --------------------------------------------------- how main can end
\* a faulty variant: main swallows the error and exits with 0
ReturnErr_ExitsZero(e) ==
    /\ pc' = "exited"
    /\ main_result' = Returned(e)
    /\ exit_status' = Some(EXIT_SUCCESS)

\* `?` on an Err: main returns it, the runtime prints it and exits with 1
ReturnErr(e) ==
    /\ pc' = "exited"
    /\ main_result' = Returned(e)
    /\ exit_status' = Some(EXIT_FAILURE)

\* a failed assert!/assert_eq! or a panic in a callee on the main thread
Panic(at) ==
    /\ pc' = "exited"
    /\ main_result' = Panicked(at)
    /\ exit_status' = Some(EXIT_PANIC)

Goto(l) ==
    /\ pc' = l
    /\ UNCHANGED << main_result, exit_status >>

\* ----------------------------------------------------- configuration
\* let initial_rotation: f64 = ... .parse()?
ParseInitialRotation ==
    /\ pc = "initial_rotation"
    /\ \E a \in FloatArgs :
          IF ParsesAsFloat(a) THEN Goto("rotation_speed")
          ELSE ReturnErr(Error("ParseFloat", NoJob, "initial-rotation"))
    /\ UNCHANGED << config, batch, encoder >>

\* let rotation_speed: f64 = ... .parse()?
ParseRotationSpeed ==
    /\ pc = "rotation_speed"
    /\ \E a \in FloatArgs :
          IF ParsesAsFloat(a) THEN Goto("worker")
          ELSE ReturnErr(Error("ParseFloat", NoJob, "rotation-speed"))
    /\ UNCHANGED << config, batch, encoder >>

\* let worker_num = match matches.value_of("worker") { Some(w) => w.parse()?, None => num_cpus::get() }
ParseWorker ==
    /\ pc = "worker"
    /\ \/ \E w \in 0..MaxW : worker_num' = w /\ Goto("is_dir")
       \/ \E w \in 1..MaxW : worker_num' = w /\ Goto("is_dir")
       \/ /\ ReturnErr(Error("ParseInt", NoJob, "worker"))
          /\ UNCHANGED worker_num
    /\ UNCHANGED << inputs, sample_number, min_bounds, max_bounds, file_opened, batch, encoder >>

\* if directory.is_dir() { ... } else { error!(...); exit(EXIT_FAILURE) }
CheckDirectory ==
    /\ pc = "is_dir"
    /\ \/ Goto("sample")
       \/ /\ pc' = "exited"
          /\ main_result' = Exited
          /\ exit_status' = Some(EXIT_FAILURE)
    /\ UNCHANGED << config, batch, encoder >>

\* let sample_number: usize = fs::read_to_string(directory.join("_sample.txt"))?.trim().parse()?
ReadSampleNumber ==
    /\ pc = "sample"
    /\ \/ \E s \in 0..MaxS : sample_number' = s /\ Goto("time")
       \/ /\ ReturnErr(Error("Io", NoJob, "_sample.txt"))
          /\ UNCHANGED sample_number
       \/ /\ ReturnErr(Error("ParseInt", NoJob, "_sample.txt"))
          /\ UNCHANGED sample_number
    /\ UNCHANGED << inputs, worker_num, min_bounds, max_bounds, file_opened, batch, encoder >>

\* let sample_time: f64 = fs::read_to_string(directory.join("_time.txt"))?.trim().parse()?
ReadSampleTime ==
    /\ pc = "time"
    /\ \/ \E a \in FloatArgs :
             IF ParsesAsFloat(Trim(a)) THEN Goto("bounds")
             ELSE ReturnErr(Error("ParseFloat", NoJob, "_time.txt"))
       \/ ReturnErr(Error("Io", NoJob, "_time.txt"))
    /\ UNCHANGED << config, batch, encoder >>

\* let (min_bounds, max_bounds) = if matches.value_of("min-bounds").is_some() { ... }
ResolveBoundsOverride(mins, maxs) ==
    /\ pc = "bounds"
    /\ \E a \in mins, b \in maxs :
          LET lo == read_bounds(a)
              hi == read_bounds(b)
          IN  IF ~lo.ok THEN
                  /\ ReturnErr(Error("ParseFloat", NoJob, "min-bounds"))
                  /\ UNCHANGED << min_bounds, max_bounds >>
              ELSE IF ~hi.ok THEN
                  /\ ReturnErr(Error("ParseFloat", NoJob, "max-bounds"))
                  /\ UNCHANGED << min_bounds, max_bounds >>
              ELSE
                  /\ min_bounds' = lo.val
                  /\ max_bounds' = hi.val
                  /\ Goto("assert_len")
    /\ UNCHANGED << inputs, worker_num, sample_number, file_opened, batch, encoder >>

\* File::open(directory.join("_bounds.dat"))? fails
BoundsFileOpenFails ==
    /\ pc = "bounds"
    /\ ReturnErr(Error("Io", NoJob, "_bounds.dat open"))
    /\ UNCHANGED << config, batch, encoder >>

\* ... else { let bounds = File::open(directory.join("_bounds.dat"))?; ... }
ResolveBoundsFile(files) ==
    /\ pc = "bounds"
    /\ \/ \* File::open fails
          /\ ReturnErr(Error("Io", NoJob, "_bounds.dat open"))
          /\ UNCHANGED << min_bounds, max_bounds, file_opened >>
       \/ \* a line cannot be read
          /\ ReturnErr(Error("Io", NoJob, "_bounds.dat lines"))
          /\ file_opened' = TRUE
          /\ UNCHANGED << min_bounds, max_bounds >>
       \/ \E f \in files :
             LET bounds == UsableLines(f)
                 lo == read_bounds(bounds[1])
                 hi == read_bounds(bounds[2])
             IN  /\ file_opened' = TRUE
                 /\ IF Len(bounds) < 1 THEN
                        /\ ReturnErr(Error("Other", NoJob, "min bounds line missing"))
                        /\ UNCHANGED << min_bounds, max_bounds >>
                    ELSE IF ~lo.ok THEN
                        /\ ReturnErr(Error("ParseFloat", NoJob, "min bounds line"))
                        /\ UNCHANGED << min_bounds, max_bounds >>
                    ELSE IF Len(bounds) < 2 THEN
                        /\ ReturnErr(Error("Other", NoJob, "max bounds line missing"))
                        /\ UNCHANGED << min_bounds, max_bounds >>
                    ELSE IF ~hi.ok THEN
                        /\ ReturnErr(Error("ParseFloat", NoJob, "max bounds line"))
                        /\ UNCHANGED << min_bounds, max_bounds >>
                    ELSE
                        /\ min_bounds' = lo.val
                        /\ max_bounds' = hi.val
                        /\ Goto("assert_len")
    /\ UNCHANGED << inputs, worker_num, sample_number, batch, encoder >>

\* a faulty variant: an existing _bounds.dat is preferred to the options
UseOverride_FileFirst == fixed_args # None /\ fixed_file = None

\* if matches.value_of("min-bounds").is_some()
UseOverride == fixed_args # None

\* the resolution of the bounds from the command line and file of the initial state
ResolveBounds ==
    IF UseOverride
    THEN ResolveBoundsOverride({fixed_args[1].min}, {fixed_args[1].max})
    ELSE IF fixed_file = None
    THEN BoundsFileOpenFails
    ELSE ResolveBoundsFile({fixed_file[1]})

\* let dimension = max_bounds.len()
dimension == Len(max_bounds)

\* a faulty variant: the lengths are not compared
AssertSameLength_Unchecked ==
    /\ pc = "assert_len"
    /\ Goto("assert_dim")
    /\ UNCHANGED << config, batch, encoder >>

\* assert_eq!(max_bounds.len(), min_bounds.len())
AssertSameLength ==
    /\ pc = "assert_len"
    /\ IF Len(max_bounds) = Len(min_bounds) THEN Goto("assert_dim") ELSE Panic("assert_len")
    /\ UNCHANGED << config, batch, encoder >>

\* a faulty variant: the dimension is not checked
AssertDimension_Unchecked ==
    /\ pc = "assert_dim"
    /\ Goto("pool")
    /\ UNCHANGED << config, batch, encoder >>

\* assert!(dimension == 2 || dimension == 3)
AssertDimension ==
    /\ pc = "assert_dim"
    /\ IF dimension = 2 \/ dimension = 3 THEN Goto("pool") ELSE Panic("assert_dim")
    /\ UNCHANGED << config, batch, encoder >>

\* ------------------------------------------------------------ dispatch
\* let pool = ThreadPool::new(worker_num), which panics for 0 threads;
\* let (tx, rx) = sync::mpsc::channel()
CreatePool ==
    /\ pc = "pool"
    /\ IF worker_num >= 1
       THEN pool' = TRUE /\ Goto("dispatch")
       ELSE pool' = FALSE /\ Panic("pool")
    /\ UNCHANGED << config, next_i, submits, queue, job, children, chan, taken, finished,
                    stdout, first_err, recv, encoder >>

\* a faulty variant: for i in 0..sample_number
LastIndex_Exclusive == sample_number - 1

\* the last index of the range 0..=sample_number
LastIndex == sample_number

\* a faulty variant: execute blocks until a worker is idle
CanSubmit_WaitsForIdle ==
    /\ next_i <= LastIndex
    /\ Cardinality({ i \in Jobs : job[i] \in {"queued", "writing", "waiting"} }) < worker_num

\* the loop has another index; pool.execute only queues the closure
CanSubmit == next_i <= LastIndex

\* for i in 0..=sample_number { ... pool.execute(move || { ... }) }
Submit ==
    /\ pc = "dispatch"
    /\ CanSubmit
    /\ job' = [job EXCEPT ![next_i] = "queued"]
    /\ submits' = [submits EXCEPT ![next_i] = @ + 1]
    /\ queue' = Append(queue, next_i)
    /\ next_i' = next_i + 1
    /\ Goto(IF next_i = LastIndex THEN "drain" ELSE "dispatch")
    /\ UNCHANGED << config, pool, children, chan, taken, finished, stdout, first_err,
                    recv, encoder >>

\* --------------------------------------------------------- the workers
\* a faulty variant: a pool thread ends with its first job
Executing_NeverFreed == { i \in Jobs : job[i] \in {"writing", "waiting", "sent"} }

\* the jobs a worker thread is executing
Executing == { i \in Jobs : job[i] \in {"writing", "waiting"} }

\* a faulty variant: one thread per job
IdleWorker_Unbounded == TRUE

\* one of the worker_num threads of the pool is not executing a job
IdleWorker == Cardinality(Executing) < worker_num

\* a faulty variant: an Err leaves the closure with `?` and is not sent
Send_DropsErr(i, item) ==
    /\ chan' = IF item.tag = "Err" THEN chan ELSE Append(chan, item)
    /\ job' = [job EXCEPT ![i] = "sent"]

\* tx.send(...).expect(...): the item is appended to the channel
Send(i, item) ==
    /\ chan' = Append(chan, item)
    /\ job' = [job EXCEPT ![i] = "sent"]

\* an idle worker takes the oldest queued job and runs its closure up to
\* Command::new("gnuplot")....spawn()?
WorkerSpawn(i) ==
    /\ pc # "exited"
    /\ pool
    /\ queue # <<>>
    /\ i = Head(queue)
    /\ IdleWorker
    /\ queue' = Tail(queue)
    /\ \/ /\ job' = [job EXCEPT ![i] = "writing"]
          /\ children' = children \cup {i}
          /\ UNCHANGED chan
       \/ /\ Send(i, ErrItem(Error("Io", i, "spawn")))
          /\ UNCHANGED children
    /\ UNCHANGED << pc, main_result, exit_status, config, pool, next_i, submits, taken,
                    finished, stdout, first_err, recv, encoder >>

\* the writeln!(writer, ...)? lines of the script; the closure panics, and
\* sends nothing, at assert_eq!(dimension, 3) when the dimension is neither 2 nor 3
\* and at min_bounds[d] when min_bounds is shorter than the dimension.
\* A failed write drops the Child without waiting for it: the process lives on.
WorkerWrite(i) ==
    /\ pc # "exited"
    /\ job[i] = "writing"
    /\ \/ /\ job' = [job EXCEPT ![i] =
                       IF dimension \in {2, 3} /\ Len(min_bounds) >= dimension
                       THEN "waiting" ELSE "panicked"]
          /\ UNCHANGED chan
       \/ Send(i, ErrItem(Error("Io", i, "write")))
    /\ UNCHANGED << pc, main_result, exit_status, config, pool, next_i, submits, queue,
                    children, taken, finished, stdout, first_err, recv, encoder >>

\* let output = child.wait_with_output()?; Ok((i, output.status.code())).
\* When the wait fails the child is not known to have exited.
WorkerWait(i) ==
    /\ pc # "exited"
    /\ job[i] = "waiting"
    /\ \/ /\ \E status \in ChildStatuses : Send(i, OkItem(i, status))
          /\ children' = children \ {i}
       \/ /\ Send(i, ErrItem(Error("Io", i, "wait")))
          /\ UNCHANGED children
    /\ UNCHANGED << pc, main_result, exit_status, config, pool, next_i, submits, queue,
                    taken, finished, stdout, first_err, recv, encoder >>

\* ------------------------------------------------------ the aggregator
\* a faulty variant: every item counts as finished
FoldStep_CountsErrors(num, result) ==
    IF num.tag = "Err" THEN ErrNum(num.err) ELSE OkNum(num.num + 1)

\* a faulty variant: Ok(num.unwrap_or(0) + 1)
FoldStep_Resets(num, result) ==
    IF result.tag = "Err" THEN ErrNum(result.err)
    ELSE IF num.tag = "Err" THEN OkNum(1)
    ELSE OkNum(num.num + 1)

\* a faulty variant: a child that does not exit with 0 is a failure
FoldStep_NonZeroFails(num, result) ==
    IF result.tag = "Err" THEN ErrNum(result.err)
    ELSE IF result.status # Some(0) THEN ErrNum(Error("Other", result.i, "status"))
    ELSE IF num.tag = "Err" THEN ErrNum(num.err)
    ELSE OkNum(num.num + 1)

\* a faulty variant: an Err item is skipped
FoldStep_SkipsErr(num, result) ==
    IF result.tag = "Err" THEN num
    ELSE IF num.tag = "Err" THEN ErrNum(num.err)
    ELSE OkNum(num.num + 1)

\* |num: Result<usize, ViewerError>, result| {
\*     let (i, status) = result?;
\*     println!("child {} finished with status {:?}", i, status);
\*     Ok(num? + 1usize) }
FoldStep(num, result) ==
    IF result.tag = "Err" THEN ErrNum(result.err)
    ELSE IF num.tag = "Err" THEN ErrNum(num.err)
    ELSE OkNum(num.num + 1)

\* what the closure prints for an item
Printed(result) ==
    IF result.tag = "Ok" THEN { << result.i, result.status >> } ELSE {}

\* a faulty variant: try_fold, which stops at the first Err
FoldDone_ShortCircuit == taken >= job_number \/ finished.tag = "Err"

\* whether rx.iter().take(job_number) is exhausted
FoldDone == taken >= job_number

\* one iteration of rx.iter().take(job_number).fold(Ok(0), ...)
Receive ==
    /\ pc = "drain"
    /\ ~FoldDone
    /\ chan # <<>>
    /\ LET result == Head(chan)
       IN  /\ finished' = FoldStep(finished, result)
           /\ stdout' = stdout \cup Printed(result)
           /\ first_err' = IF result.tag = "Err" /\ first_err = NoError
                           THEN result.err ELSE first_err
           /\ recv' = [recv EXCEPT ![SenderOf(result)] = @ + 1]
    /\ chan' = Tail(chan)
    /\ taken' = taken + 1
    /\ UNCHANGED << pc, main_result, exit_status, config, pool, next_i, submits, queue,
                    job, children, encoder >>

\* the `?` after the fold
EndFold ==
    /\ pc = "drain"
    /\ FoldDone
    /\ IF finished.tag = "Err" THEN ReturnErr(finished.err) ELSE Goto("assert_finished")
    /\ UNCHANGED << config, batch, encoder >>

\* assert_eq!(finished, job_number)
AssertFinished ==
    /\ pc = "assert_finished"
    /\ IF finished.num = job_number THEN Goto("ffmpeg") ELSE Panic("assert_finished")
    /\ UNCHANGED << config, batch, encoder >>

\* -------------------------------------------------------- the encoder
\* Command::new("ffmpeg")....spawn()?
SpawnFfmpeg ==
    /\ pc = "ffmpeg"
    /\ ffmpeg' = ffmpeg + 1
    /\ \/ Goto("ffmpeg_wait")
       \/ ReturnErr(Error("Io", NoJob, "ffmpeg spawn"))
    /\ UNCHANGED << config, batch, ffmpeg_status >>

\* let output = child.wait_with_output()?; println!(...); Ok(())
WaitFfmpeg ==
    /\ pc = "ffmpeg_wait"
    /\ \/ \E status \in ChildStatuses :
             /\ ffmpeg_status' = Some(status)
             /\ pc' = "exited"
             /\ main_result' = Returned(NoError)
             /\ exit_status' = Some(EXIT_SUCCESS)
       \/ /\ ReturnErr(Error("Io", NoJob, "ffmpeg wait"))
          /\ UNCHANGED ffmpeg_status
    /\ UNCHANGED << config, batch, ffmpeg >>

\* ------------------------------------------------------ specification
MainThread ==
    \/ ParseInitialRotation
    \/ ParseRotationSpeed
    \/ ParseWorker
    \/ CheckDirectory
    \/ ReadSampleNumber
    \/ ReadSampleTime
    \/ ResolveBoundsOverride(MinArgs, MaxArgs)
    \/ ResolveBoundsFile(BoundsFiles)
    \/ AssertSameLength
    \/ AssertDimension
    \/ CreatePool
    \/ Submit
    \/ Receive
    \/ EndFold
    \/ AssertFinished
    \/ SpawnFfmpeg
    \/ WaitFfmpeg

Worker(i) ==
    \/ WorkerSpawn(i)
    \/ WorkerWrite(i)
    \/ WorkerWait(i)

Next ==
    \/ MainThread
    \/ \E i \in Jobs : Worker(i)

Spec == Init /\ [][Next]_vars

\* The main thread and every pool thread are scheduled by the operating system,
\* and every gnuplot child eventually exits.
FairSpec ==
    /\ Init
    /\ [][Next]_vars
    /\ WF_vars(MainThread)
    /\ \A i \in Jobs : WF_vars(Worker(i))

\* ----------------------------------------- the bounds resolver alone
\* values of --min-bounds / --max-bounds
ArgStrings ==
    { <<"0", " ", "0">>, <<"1", " ", " ", "1", " ">>, <<"0", " ", "0", " ", "0">>,
      <<"1">>, <<"0", " ", "x">> }

\* lines of _bounds.dat
RichFileLines ==
    { <<"0", " ", "0">>, <<"1", " ", "1">>, <<"1", " ", "1", " ", "1">>, <<"x">>,
      <<>>, <<"\t">>, <<" ", "#", "1">> }

\* main from the resolution of the bounds to the end of the dispatch loop, for
\* every command line and every _bounds.dat (None: there is no such file),
\* with one worker and one sample
BoundsInit ==
    /\ fixed_args \in {None} \cup { Some([min |-> a, max |-> b]) : a, b \in ArgStrings }
    /\ fixed_file \in {None} \cup { Some(f) : f \in SeqsUpTo(RichFileLines, MaxLines) }
    /\ pc = "bounds"
    /\ main_result = Running
    /\ exit_status = None
    /\ worker_num = 1
    /\ sample_number = 0
    /\ min_bounds = <<>>
    /\ max_bounds = <<>>
    /\ file_opened = FALSE
    /\ pool = FALSE
    /\ next_i = 0
    /\ submits = [i \in Jobs |-> 0]
    /\ queue = <<>>
    /\ job = [i \in Jobs |-> "unsubmitted"]
    /\ children = {}
    /\ chan = <<>>
    /\ taken = 0
    /\ finished = OkNum(0)
    /\ stdout = {}
    /\ first_err = NoError
    /\ recv = [i \in Jobs |-> 0]
    /\ ffmpeg = 0
    /\ ffmpeg_status = <<>>

BoundsNext ==
    \/ ResolveBounds
    \/ AssertSameLength
    \/ AssertDimension
    \/ CreatePool
    \/ Submit

BoundsSpec == BoundsInit /\ [][BoundsNext]_vars

\* --------------------------------------------------------- properties
\* the fold has yielded its result
Drained == pool /\ pc \notin {"dispatch", "drain"}

\* the indices of the samples, 0..=sample_number
Samples == 0..sample_number

\* the items of job i that are in the channel
InChannel(i) == { k \in 1..Len(chan) : SenderOf(chan[k]) = i }

\* C10: with at least one worker, once the pool exists the fold receives the
\* sample_number + 1 items, one per job, and the process exits, after running
\* ffmpeg when no job failed
C10_Terminates ==
    pool ~> ( /\ pc = "exited"
              /\ taken = sample_number + 1
              /\ \A i \in Samples : recv[i] = 1
              /\ first_err = NoError => ffmpeg = 1 )

C10_Witness ==
    /\ pc = "exited"
    /\ worker_num = 1
    /\ sample_number = 2
    /\ taken = 3
    /\ ffmpeg = 1


\* some job's outcome is an error, received or still in the channel
AnyJobFailed == first_err # NoError \/ \E k \in 1..Len(chan) : chan[k].tag = "Err"

\* C1: the fold never takes more than sample_number + 1 items from the channel,
\* and when it has yielded its result it has taken exactly that many, also
\* when some of them were errors
C1_DrainsExactly ==
    /\ taken <= sample_number + 1
    /\ Drained => taken = sample_number + 1

C1_Witness ==
    /\ Drained
    /\ worker_num = 1
    /\ sample_number >= 1
    /\ first_err.job = 0
    /\ stdout # {}
    /\ finished.tag = "Err"
    /\ taken = sample_number + 1

\* C2: ffmpeg is spawned at most once; never when some job's outcome is an
\* error, and then main returns a job's error; and once when the run got
\* through the fold with no job error
C2_EncoderGated ==
    /\ ffmpeg <= 1
    /\ AnyJobFailed => ffmpeg = 0
    /\ (pc = "exited" /\ AnyJobFailed) =>
           main_result.how = "Err" /\ main_result.err.job \in Samples
    /\ (pc = "exited" /\ pool /\ ~AnyJobFailed) => ffmpeg = 1

C2_Witness ==
    /\ pc = "exited"
    /\ sample_number = 2
    /\ first_err.at = "wait"
    /\ main_result.how = "Err"
    /\ stdout # {}
    /\ ffmpeg = 0

\* C3: when main is at or past the spawn of ffmpeg, every job 0..=sample_number
\* has sent its item, no item is left in the channel and the fold has received
\* the item of every job
C3_EncoderAfterAll ==
    (ffmpeg > 0 \/ pc \in {"ffmpeg", "ffmpeg_wait"}) =>
        /\ chan = <<>>
        /\ \A i \in Samples : job[i] = "sent" /\ recv[i] = 1

C3_Witness ==
    /\ pc = "ffmpeg_wait"
    /\ ffmpeg = 1
    /\ sample_number = 2
    /\ worker_num = 2

\* C4: the error in the fold's accumulator, and the error main returns for the
\* batch, is the first error the fold received
C4_FirstErrorReported ==
    /\ finished.tag = "Err" => finished.err = first_err
    /\ (pc = "exited" /\ main_result.err.job \in Samples) => main_result.err = first_err

\* C5: once the fold has received an error its accumulator is an Err, whatever
\* it receives afterwards
C5_StaysFailed == first_err # NoError => finished.tag = "Err"

C5_Witness ==
    /\ worker_num = 1
    /\ first_err.job = 0
    /\ << 1, Some(0) >> \in stdout
    /\ taken = 2
    /\ finished.tag = "Err"

\* C6: a job that has run has put exactly one item into the channel, which is
\* in the channel or was received once; a job that has not has none; and when
\* the fold has yielded, it has received the item of every job once
C6_ExactlyOnce ==
    /\ \A i \in Jobs :
          Cardinality(InChannel(i)) + recv[i] = IF job[i] = "sent" THEN 1 ELSE 0
    /\ pc = "drain" => \A i \in Samples : job[i] # "unsubmitted"
    /\ Drained => \A i \in Samples : recv[i] = 1 /\ InChannel(i) = {}

C6_Witness ==
    /\ Drained
    /\ sample_number = 2
    /\ worker_num = 2
    /\ first_err.at = "write"
    /\ \A i \in Samples : recv[i] = 1

\* C7: only an error item fails the fold: while no error item was received the
\* accumulator is Ok of the number of items received, whatever the exit
\* statuses of the children, and such a run spawns ffmpeg
C7_ExitCodeIsNoFailure ==
    /\ first_err = NoError => finished = OkNum(taken)
    /\ (pc = "exited" /\ pool /\ first_err = NoError) => ffmpeg = 1

C7_Witness ==
    /\ ffmpeg = 1
    /\ << 0, Some(1) >> \in stdout
    /\ << 1, None >> \in stdout

\* every stage did its work: the configuration was valid, every job's item was
\* received and none was an error, and ffmpeg was spawned and waited for
StagesSucceeded ==
    /\ worker_num >= 1
    /\ Len(min_bounds) = Len(max_bounds)
    /\ dimension \in {2, 3}
    /\ taken = sample_number + 1
    /\ first_err = NoError
    /\ ffmpeg = 1
    /\ ffmpeg_status # None

\* C8: the process exits with status 0 when every stage succeeded (a stage
\* fails by an error or a panic, not by the exit status of a child), and with
\* a non-zero status otherwise, the path that is no directory included
C8_ExitStatus ==
    pc = "exited" =>
        /\ exit_status \in {Some(EXIT_SUCCESS), Some(EXIT_FAILURE), Some(EXIT_PANIC)}
        /\ exit_status = Some(EXIT_SUCCESS) <=> StagesSucceeded
        /\ main_result.how = "exit" => exit_status = Some(EXIT_FAILURE)

C8_Witness ==
    /\ pc = "exited"
    /\ main_result.err.at = "ffmpeg wait"
    /\ exit_status = Some(EXIT_FAILURE)

\* the `?` and assertions of the configuration stage
ConfigSites ==
    { "initial-rotation", "rotation-speed", "worker", "_sample.txt", "_time.txt",
      "min-bounds", "max-bounds", "_bounds.dat open", "_bounds.dat lines",
      "min bounds line missing", "min bounds line", "max bounds line missing",
      "max bounds line", "assert_len", "assert_dim" }

NothingDispatched ==
    /\ next_i = 0
    /\ queue = <<>>
    /\ chan = <<>>
    /\ \A i \in Jobs : job[i] = "unsubmitted"
    /\ children = {}
    /\ ffmpeg = 0

\* C9: a run that ended with a configuration or I/O error of the configuration
\* stage submitted no job and spawned neither gnuplot nor ffmpeg; a job is
\* submitted only under a valid configuration
C9_AbortBeforeDispatch ==
    /\ (pc = "exited" /\ main_result.err.at \in ConfigSites) => NothingDispatched
    /\ next_i > 0 => Len(min_bounds) = Len(max_bounds) /\ dimension \in {2, 3}

C9_Witness ==
    /\ pc = "exited"
    /\ main_result.err.at = "max bounds line missing"
    /\ file_opened
    /\ NothingDispatched


C12_JobsAreZeroToS ==
    /\ \A i \in Jobs : submits[i] = IF i < next_i THEN 1 ELSE 0
    /\ (pool /\ pc # "dispatch") =>
          /\ { i \in Jobs : submits[i] > 0 } = 0..sample_number
          /\ next_i = sample_number + 1
          /\ job_number = Cardinality({ i \in Jobs : submits[i] > 0 })

C12_Witness ==
    /\ pc = "drain"
    /\ sample_number = 0
    /\ submits[0] = 1
    /\ next_i = 1

\* the receiver rx lives from the creation of the channel to the end of main
RxOpen == pool /\ pc # "exited"

\* C16: while some job 0..=sample_number has not sent its item, rx is open:
\* main has not returned, panicked or exited
C16_ReceiverOutlivesSenders ==
    (pool /\ \E i \in Samples : job[i] # "sent") => RxOpen

C16_Witness ==
    /\ pc = "drain"
    /\ first_err # NoError
    /\ RxOpen
    /\ \E i \in Samples : job[i] = "waiting"

\* C17: at assert_eq!(finished, job_number) the count is sample_number + 1,
\* and main never panics there
C17_AssertionHolds ==
    /\ pc = "assert_finished" => finished = OkNum(sample_number + 1)
    /\ main_result.err.at # "assert_finished"

C17_Witness ==
    /\ pc = "assert_finished"
    /\ sample_number = 2
    /\ finished.num = 3

\* C18: while main is in the dispatch loop the next submission is enabled,
\* whatever the submitted jobs are doing, and nothing has been received; an
\* item is received only when every job has been submitted
C18_DispatchDoesNotWait ==
    /\ pc = "dispatch" => ENABLED Submit
    /\ pc = "dispatch" => taken = 0
    /\ taken > 0 => \A i \in Samples : submits[i] = 1

C18_Witness ==
    /\ pc = "dispatch"
    /\ worker_num = 1
    /\ Cardinality(Executing) = 1
    /\ queue # <<>>
    /\ next_i <= sample_number

\* C19: when the fold has yielded, no job is queued or executing and the
\* channel is empty; and when main returns a job's error, no other job has a
\* gnuplot child that was not waited for
C19_NothingLeftBehind ==
    Drained =>
        /\ queue = <<>>
        /\ Executing = {}
        /\ chan = <<>>
        /\ (main_result.how = "Err" /\ main_result.err.job \in Samples) =>
               children \ {main_result.err.job} = {}

\* the count the accumulator carries: an Err carries none
CountOf(acc) == IF acc.tag = "Ok" THEN Some(acc.num) ELSE None

\* C20, as stated: at the end of the drain the accumulator carries the number
\* of Ok items received, also in a failed batch
C20_CountsAfterFailure ==
    (pc = "drain" /\ FoldDone) => CountOf(finished) = Some(Cardinality(stdout))

\* C20, amended: an Ok item received after an error is still received and
\* printed, but not counted: once an error was received the accumulator
\* carries no count; while none was, the count is the number of items received
C20_CountOnlyWithoutFailure ==
    /\ first_err # NoError => CountOf(finished) = None
    /\ first_err = NoError => CountOf(finished) = Some(taken) /\ Cardinality(stdout) = taken
    /\ \A p \in stdout : recv[p[1]] = 1
    /\ Cardinality(stdout) <= taken

C20_Witness ==
    /\ pc = "drain"
    /\ FoldDone
    /\ worker_num = 1
    /\ sample_number = 2
    /\ first_err.job = 0
    /\ << 2, None >> \in stdout


\* a line of whitespace only
BlankLine(l) == \A k \in 1..Len(l) : IsWhitespace(l[k])

\* a line whose first character that is no whitespace is the comment marker
CommentLine(l) == \E k \in 1..Len(l) : l[k] = "#" /\ \A j \in 1..(k - 1) : IsWhitespace(l[j])

\* the lines of a file that are neither blank nor comments, in order
Remaining(f) ==
    LET Keep(l) == ~BlankLine(l) /\ ~CommentLine(l) IN SelectSeq(f, Keep)

\* C13: with --min-bounds and --max-bounds given, _bounds.dat is never opened,
\* and the resolution yields what read_bounds makes of the two options (or
\* its parse error), whatever the file holds and whether or not it exists
C13_OverrideIgnoresFile ==
    fixed_args # None =>
        /\ ~file_opened
        /\ pc # "bounds" =>
              LET lo == read_bounds(fixed_args[1].min)
                  hi == read_bounds(fixed_args[1].max)
              IN  IF lo.ok /\ hi.ok
                  THEN /\ min_bounds = lo.val
                       /\ max_bounds = hi.val
                       /\ main_result.err.kind \notin {"ParseFloat", "Io", "Other"}
                  ELSE /\ main_result.how = "Err"
                       /\ main_result.err.kind = "ParseFloat"

C13_Witness ==
    /\ fixed_args = Some([min |-> <<"0", " ", "0">>, max |-> <<"1", " ", " ", "1", " ">>])
    /\ fixed_file = Some(<< <<"1", " ", "1", " ", "1">>, <<"1", " ", "1", " ", "1">> >>)
    /\ pc = "pool"
    /\ min_bounds = <<0, 0>>
    /\ max_bounds = <<1, 1>>

\* the lines of _bounds.dat were read
FileWasRead ==
    /\ fixed_args = None
    /\ fixed_file # None
    /\ file_opened
    /\ pc # "bounds"
    /\ main_result.err.kind # "Io"

\* C14, as stated: blank and comment lines are skipped, the first remaining
\* line gives min_bounds and the second max_bounds, and with fewer than two
\* remaining lines the resolution fails with a missing-bounds-line error
C14_FileBoundsAsStated ==
    FileWasRead =>
        LET u == Remaining(fixed_file[1])
        IN  IF Len(u) < 2
            THEN main_result.how = "Err" /\ main_result.err.kind = "Other"
            ELSE (read_bounds(u[1]).ok /\ read_bounds(u[2]).ok) =>
                     /\ min_bounds = read_bounds(u[1]).val
                     /\ max_bounds = read_bounds(u[2]).val

\* C14, amended: blank and comment lines are skipped, the first remaining line
\* gives min_bounds and the second max_bounds; with no remaining line, or with
\* one that parses, the resolution fails with a missing-bounds-line error, and
\* with a first or second remaining line that does not parse, with that
\* line's parse error
C14_FileBounds ==
    FileWasRead =>
        LET u == Remaining(fixed_file[1])
        IN  IF Len(u) = 0
            THEN main_result.err = Error("Other", NoJob, "min bounds line missing")
            ELSE IF ~read_bounds(u[1]).ok
            THEN main_result.err = Error("ParseFloat", NoJob, "min bounds line")
            ELSE IF Len(u) = 1
            THEN main_result.err = Error("Other", NoJob, "max bounds line missing")
            ELSE IF ~read_bounds(u[2]).ok
            THEN main_result.err = Error("ParseFloat", NoJob, "max bounds line")
            ELSE /\ min_bounds = read_bounds(u[1]).val
                 /\ max_bounds = read_bounds(u[2]).val
                 /\ main_result.err.kind \notin {"ParseFloat", "Io", "Other"}

C14_Witness ==
    /\ FileWasRead
    /\ fixed_file = Some(<< <<"0", " ", "0">>, <<" ", "#", "1">>, <<"1", " ", "1">> >>)
    /\ pc = "pool"
    /\ min_bounds = <<0, 0>>
    /\ max_bounds = <<1, 1>>

\* the two strings the bounds are parsed from, when there are two
HasBoundsStrings ==
    \/ fixed_args # None
    \/ fixed_file # None /\ Len(Remaining(fixed_file[1])) >= 2
MinString == IF fixed_args # None THEN fixed_args[1].min ELSE Remaining(fixed_file[1])[1]
MaxString == IF fixed_args # None THEN fixed_args[1].max ELSE Remaining(fixed_file[1])[2]

\* the resolution is over and did not fail with an I/O error
Resolved == pc # "bounds" /\ main_result.err.kind # "Io"

\* C15: a literal that does not parse makes main return the parse error; min
\* and max of different lengths, and a dimension other than 2 and 3, make main
\* panic at its assertion; each before any job is submitted and with a
\* non-zero exit status.  Past the assertions the lengths are equal and the
\* dimension is 2 or 3.
C15_Validation ==
    /\ pc \notin {"bounds", "assert_len", "assert_dim", "exited"} =>
          Len(min_bounds) = Len(max_bounds) /\ dimension \in {2, 3}
    /\ (HasBoundsStrings /\ Resolved) =>
          LET lo == read_bounds(MinString)
              hi == read_bounds(MaxString)
          IN  IF ~lo.ok \/ ~hi.ok
              THEN /\ main_result.how = "Err"
                   /\ main_result.err.kind = "ParseFloat"
                   /\ exit_status = Some(EXIT_FAILURE)
                   /\ NothingDispatched
              ELSE IF Len(lo.val) # Len(hi.val)
              THEN pc # "assert_len" =>
                       /\ main_result = Panicked("assert_len")
                       /\ exit_status = Some(EXIT_PANIC)
                       /\ NothingDispatched
              ELSE IF Len(hi.val) \notin {2, 3}
              THEN pc \notin {"assert_len", "assert_dim"} =>
                       /\ main_result = Panicked("assert_dim")
                       /\ exit_status = Some(EXIT_PANIC)
                       /\ NothingDispatched
              ELSE main_result.how = "running"

C15_Witness ==
    /\ pc = "exited"
    /\ fixed_args # None
    /\ Len(min_bounds) = 3
    /\ Len(max_bounds) = 2
    /\ main_result = Panicked("assert_len")

====
